---- MODULE Spec2Model ----
(***************************************************************************)
(* Model of the Route 53 scripts                                           *)
(*   scripts/aws-cleanup-legacy-txt-records.py   (script = "aws-cleanup")  *)
(*   scripts/cleanup-legacy-txt-records.py       (script = "cleanup")      *)
(*   scripts/update_route53_k8s_txt_owner.py     (script = "update-owner") *)
(* One run of a script is one behaviour: the operator's answer, the pages  *)
(* the provider returns and the outcome of every provider call are the     *)
(* inputs.  Strings are sequences of characters.                           *)
(***************************************************************************)
EXTENDS Integers, Sequences, FiniteSets, TLC

VARIABLES
    script,                 \* which of the scripts runs
    config,                 \* Config: contain, total_items, batch_size, run
    page_size,              \* records the provider returns per listing call
    zone0,                  \* the zone when the run starts (never changes)
    zone,                   \* the provider's zone now, in listing order
    pc,                     \* position of the single thread of control
    answer,                 \* what the operator typed at the prompt, if asked
    request,                \* the last listing request issued
    dns_in_iteration,       \* the last listing response
    dns_records_to_cleanup, \* the accumulated matches
    items,                  \* matches counted so far
    total,                  \* delete_records: len(records)
    count,                  \* delete_records: running progress counter
    i,                      \* delete_records: loop index of range()
    batches,                \* the batch of every for-loop iteration begun, in order
    calls,                  \* change_resource_record_sets calls issued, in order
    sleeps,                 \* number of time.sleep(SLEEP) calls
    progress,               \* the count values of the progress lines printed
    listed,                 \* SetIdentifiers the listing has returned so far
    revisited,              \* a listing returned a record it had returned before
    outcome,                \* how the run ended
    exit_status,            \* the process exit status, NoExit while running
    \* scripts/update_route53_k8s_txt_owner.py (script = "update-owner")
    svcs,                   \* the annotations of the services of the cluster
    ings,                   \* the hosts of the ingress rules of the cluster
    external_dns_manages_services,
    external_dns_manages_ingresses,
    k8s_domains,            \* the domains Kubernetes is going to manage
    existing_r53_txt_domains,
    existing_r53_domains,
    has_next,
    next_record_name,
    next_record_type,
    change_batch,
    printed,                \* the change batches shown to the operator
    response                \* what the operator typed at "Good to go? "

\* the variables of update_route53_k8s_txt_owner.py alone
ownerVars == <<svcs, ings, external_dns_manages_services,
               external_dns_manages_ingresses, k8s_domains,
               existing_r53_txt_domains, existing_r53_domains, has_next,
               next_record_name, next_record_type, change_batch, printed, response>>

vars == <<script, config, page_size, zone0, zone, pc, answer, request,
          dns_in_iteration,
          dns_records_to_cleanup, items, total, count, i, batches, calls, sleeps,
          progress, listed, revisited, outcome, exit_status, ownerVars>>

----------------------------------------------------------------------------
(* Bounds of the model *)
MaxZone  == 3      \* record sets in the zone
MaxPage  == 2      \* page sizes 1..MaxPage
MaxTotal == 3      \* --total-items in 0..MaxTotal
MaxBatch == 2      \* --batch-delete-count in -1..MaxBatch
MaxServices == 2   \* services in the cluster
MaxRules == 2      \* ingress rules in the cluster

(* os.EX_OSERR *)
EX_OSERR == 71

NoExit == -1
NoName == 0
NoType == "none"

Min(a, b) == IF a <= b THEN a ELSE b

----------------------------------------------------------------------------
(* Strings and the predicate *)

\* Python's `contains in s`: s has contains as a contiguous substring.
SubstringOf(contains, s) ==
    \E k \in 0..(Len(s) - Len(contains)) :
        SubSeq(s, k + 1, k + Len(contains)) = contains

\* Record.__init__: resource_record is the concatenation of the Values.
RECURSIVE ConcatValues(_)
ConcatValues(resource_records) ==
    IF resource_records = <<>> THEN <<>>
    ELSE Head(resource_records).Value \o ConcatValues(Tail(resource_records))

\* Record(el)
Record(el) ==
    [type            |-> "TXT",
     record          |-> el,
     name            |-> el.Name,
     resource_record |-> ConcatValues(el.ResourceRecords)]

\* the predicate tested on each value string instead of on the concatenation
IsForDeletionPerValue(record, contains) ==
    \E k \in 1..Len(record.record.ResourceRecords) :
        SubstringOf(contains, record.record.ResourceRecords[k].Value)

\* Record.is_for_deletion(contains)
is_for_deletion(record, contains) == SubstringOf(contains, record.resource_record)

----------------------------------------------------------------------------
(* The provider: a zone is a list of record sets ordered by name, then type *)

TypeRank(t) == IF t = "A" THEN 1 ELSE 2

\* the value lists a record set carries: "a","b" concatenates to "ab"
ValueLists ==
    { << [Value |-> <<"a">>], [Value |-> <<"b">>] >>,
      << [Value |-> <<"b">>], [Value |-> <<"a">>] >> }

\* the kinds of record set in a zone: an A record set, and TXT record sets
Kinds ==
    { [Type |-> "A", ResourceRecords |-> << [Value |-> <<"a">>], [Value |-> <<"b">>] >>] }
    \cup [Type : {"TXT"}, ResourceRecords : ValueLists]

\* the values of --record-match / --record-contain
Matches == { <<>>, <<"a", "b">> }

\* the zones of at most MaxZone record sets: names are numbered in listing
\* order, and several record sets may share a name and a type (they differ
\* in their SetIdentifier)
Zones ==
    UNION { { [k \in 1..n |-> [Name            |-> s[k].Name,
                               Type            |-> s[k].Kind.Type,
                               ResourceRecords |-> s[k].Kind.ResourceRecords,
                               SetIdentifier   |-> k]] :
              s \in { t \in [1..n -> [Name : 1..n, Kind : Kinds]] :
                        /\ n > 0 => t[1].Name = 1
                        /\ \A k \in 1..(n - 1) :
                              /\ t[k + 1].Name <= t[k].Name + 1
                              /\ \/ t[k].Name < t[k + 1].Name
                                 \/ /\ t[k].Name = t[k + 1].Name
                                    /\ TypeRank(t[k].Kind.Type)
                                          <= TypeRank(t[k + 1].Kind.Type) } }
            : n \in 0..MaxZone }

\* list_resource_record_sets(StartRecordName, StartRecordType, MaxItems):
\* the results begin with the first record set whose name (and type, when a
\* type is given) is greater than or equal to the start.
list_resource_record_sets(z, StartRecordName, StartRecordType, MaxItems) ==
    LET from == SelectSeq(z, LAMBDA el :
                    \/ StartRecordName = NoName
                    \/ el.Name > StartRecordName
                    \/ /\ el.Name = StartRecordName
                       /\ \/ StartRecordType = NoType
                          \/ TypeRank(el.Type) >= TypeRank(StartRecordType))
        truncated == Len(from) > MaxItems
    IN  [ResourceRecordSets |-> SubSeq(from, 1, Min(MaxItems, Len(from))),
         IsTruncated        |-> truncated,
         NextRecordName     |-> IF truncated THEN from[MaxItems + 1].Name ELSE NoName,
         NextRecordType     |-> IF truncated THEN from[MaxItems + 1].Type ELSE NoType]

\* change_resource_record_sets applies a change-set atomically; a DELETE of a
\* record set that is not in the zone, or twice in one set, is rejected.
Applicable(z, changes) ==
    /\ \A k \in 1..Len(changes) :
          \E m \in 1..Len(z) : z[m] = changes[k].ResourceRecordSet
    /\ \A k, m \in 1..Len(changes) :
          changes[k].ResourceRecordSet = changes[m].ResourceRecordSet => k = m

ApplyChanges(z, changes) ==
    SelectSeq(z, LAMBDA el :
        \A k \in 1..Len(changes) : changes[k].ResourceRecordSet # el)

----------------------------------------------------------------------------
(* The Selector *)

\* the test of the for loop's body: the type, and in aws-cleanup the predicate
Selected(el) ==
    /\ el.Type = "TXT"
    /\ script = "aws-cleanup" => is_for_deletion(Record(el), config.contain)

\* for el in elements: ... append, items += 1, break at the cap
RECURSIVE ScanPage(_, _, _)
ScanPage(elements, cleanup, n) ==
    IF elements = <<>> THEN [cleanup |-> cleanup, items |-> n]
    ELSE IF Selected(Head(elements))
         THEN IF n + 1 >= config.total_items
              THEN [cleanup |-> Append(cleanup, Record(Head(elements))),
                    items   |-> n + 1]
              ELSE ScanPage(Tail(elements),
                            Append(cleanup, Record(Head(elements))), n + 1)
         ELSE ScanPage(Tail(elements), cleanup, n)

\* the while condition
MorePages ==
    /\ Len(dns_in_iteration.ResourceRecordSets) > 0
    /\ dns_in_iteration.NextRecordName # NoName
    /\ items < config.total_items

Ids(elements) == { elements[k].SetIdentifier : k \in 1..Len(elements) }

NoResponse ==
    [ResourceRecordSets |-> <<>>, IsTruncated |-> FALSE,
     NextRecordName |-> NoName, NextRecordType |-> NoType]

\* no listing request was issued yet
NoRequest ==
    [kind |-> "none", seq |-> 0, StartRecordName |-> NoName,
     StartRecordType |-> NoType, cursor |-> <<NoName, NoType>>]

\* list_resource_record_sets(**params): the first request has no start
FirstRequest ==
    [kind |-> "first", seq |-> 1, StartRecordName |-> NoName,
     StartRecordType |-> NoType, cursor |-> <<NoName, NoType>>]

\* the request of the while loop: StartRecordName = NextRecordName, and no
\* StartRecordType; cursor is what the last response gave, seq alternates
\* from one request to the next
ContinuationRequest ==
    [kind |-> "next", seq |-> 1 - request.seq,
     StartRecordName |-> dns_in_iteration.NextRecordName,
     StartRecordType |-> NoType,
     cursor |-> <<dns_in_iteration.NextRecordName, dns_in_iteration.NextRecordType>>]

\* the provider's answer to a listing request
Respond(req) ==
    list_resource_record_sets(zone, req.StartRecordName, req.StartRecordType, page_size)

----------------------------------------------------------------------------
\* update_route53_k8s_txt_owner.py before its first statement; the clean-up
\* scripts never touch these variables
OwnerIdle ==
    /\ k8s_domains = <<>>
    /\ existing_r53_txt_domains = <<>>
    /\ existing_r53_domains = <<>>
    /\ has_next = TRUE
    /\ next_record_name = <<>>
    /\ next_record_type = ""
    /\ change_batch = <<>>
    /\ printed = <<>>
    /\ response = <<>>

\* the clean-up scripts read no Kubernetes cluster
NoCluster ==
    /\ svcs = <<>>
    /\ ings = <<>>
    /\ external_dns_manages_services = TRUE
    /\ external_dns_manages_ingresses = TRUE

\* the state when the script starts, whatever its arguments and the zone
Start ==
    /\ script \in {"aws-cleanup", "cleanup"}
    /\ config \in [contain : Matches, total_items : 0..MaxTotal,
                   batch_size : -1..MaxBatch, run : BOOLEAN]
    /\ zone = zone0
    /\ pc = IF script = "aws-cleanup" THEN "confirm" ELSE "list_first"
    /\ answer = "none"
    /\ request = NoRequest
    /\ dns_in_iteration = NoResponse
    /\ dns_records_to_cleanup = <<>>
    /\ items = 0
    /\ total = 0
    /\ count = 0
    /\ i = 0
    /\ batches = <<>>
    /\ calls = <<>>
    /\ sleeps = 0
    /\ progress = <<>>
    /\ listed = {}
    /\ revisited = FALSE
    /\ outcome = "running"
    /\ exit_status = NoExit
    /\ NoCluster
    /\ OwnerIdle

Init ==
    /\ page_size \in 1..MaxPage
    /\ zone0 \in Zones
    /\ Start

\* the zones of the worked example: five TXT record sets with five names,
\* three of them with a value that contains "ab"
ExampleZones ==
    { [k \in 1..5 |-> [Name            |-> k,
                       Type            |-> "TXT",
                       ResourceRecords |-> v[k],
                       SetIdentifier   |-> k]] :
      v \in { w \in [1..5 -> ValueLists] :
                Cardinality({ k \in 1..5 :
                    SubstringOf(<<"a", "b">>, ConcatValues(w[k])) }) = 3 } }

\* the runs on the zones of the worked example, the whole zone in one page
\* or in pages of at most MaxPage
InitExample ==
    /\ page_size \in (1..MaxPage) \cup {5}
    /\ zone0 \in ExampleZones
    /\ Start
    /\ config.contain = <<"a", "b">>

\* os._exit(status) or falling off the end of the script
Exit(how, status) ==
    /\ pc' = "exited"
    /\ outcome' = how
    /\ exit_status' = status

\* the prompt whose answer is not looked at
ConfirmIgnored ==
    /\ pc = "confirm"
    /\ \E typed \in {"yes", "no"} : answer' = typed
    /\ pc' = "list_first"
    /\ UNCHANGED ownerVars
    /\ UNCHANGED <<script, config, page_size, zone0, zone, request, dns_in_iteration,
                   dns_records_to_cleanup, items, total, count, i, batches, calls,
                   sleeps, progress, listed, revisited, outcome, exit_status>>

\* aws-cleanup: answer = input(...); if answer != 'yes': os._exit(0)
Confirm ==
    /\ pc = "confirm"
    /\ \E typed \in {"yes", "no"} :
          /\ answer' = typed
          /\ IF typed # "yes"
             THEN Exit("declined", 0)
             ELSE pc' = "list_first" /\ UNCHANGED <<outcome, exit_status>>
    /\ UNCHANGED ownerVars
    /\ UNCHANGED <<script, config, page_size, zone0, zone, request, dns_in_iteration,
                   dns_records_to_cleanup, items, total, count, i, batches, calls,
                   sleeps, progress, listed, revisited>>

\* a listing response arrives and its page is scanned
Receive(resp) ==
    LET scan == ScanPage(resp.ResourceRecordSets, dns_records_to_cleanup, items)
    IN  /\ dns_in_iteration' = resp
        /\ dns_records_to_cleanup' = scan.cleanup
        /\ items' = scan.items
        /\ listed' = listed \cup Ids(resp.ResourceRecordSets)
        /\ revisited' = (revisited \/ Ids(resp.ResourceRecordSets) \cap listed # {})
        /\ pc' = "while"
        /\ UNCHANGED <<outcome, exit_status>>

\* the first list_resource_record_sets call and the for loop after it
ListFirst ==
    /\ pc = "list_first"
    /\ request' = FirstRequest
    /\ Receive(Respond(FirstRequest))
    /\ UNCHANGED ownerVars
    /\ UNCHANGED <<script, config, page_size, zone0, zone, answer, total, count, i,
                   batches, calls, sleeps, progress>>

\* one iteration of the while loop: the call starts at NextRecordName only
ListNext ==
    /\ pc = "while"
    /\ MorePages
    /\ request' = ContinuationRequest
    /\ Receive(Respond(ContinuationRequest))
    /\ UNCHANGED ownerVars
    /\ UNCHANGED <<script, config, page_size, zone0, zone, answer, total, count, i,
                   batches, calls, sleeps, progress>>

\* a listing error that is reported while the run goes on to delete_records
ListFailThenDeletes ==
    /\ \/ pc = "list_first"
       \/ pc = "while" /\ MorePages
    /\ request' = IF pc = "list_first" THEN FirstRequest ELSE ContinuationRequest
    /\ pc' = "for"
    /\ outcome' = "ListingFailure"
    /\ exit_status' = EX_OSERR
    /\ total' = Len(dns_records_to_cleanup)
    /\ UNCHANGED ownerVars
    /\ UNCHANGED <<script, config, page_size, zone0, zone, answer, dns_in_iteration,
                   dns_records_to_cleanup, items, count, i, batches, calls,
                   sleeps, progress, listed, revisited>>

\* a listing error after which the process exits with status 0
ListFailExitsZero ==
    /\ \/ pc = "list_first"
       \/ pc = "while" /\ MorePages
    /\ request' = IF pc = "list_first" THEN FirstRequest ELSE ContinuationRequest
    /\ Exit("ListingFailure", 0)
    /\ UNCHANGED ownerVars
    /\ UNCHANGED <<script, config, page_size, zone0, zone, answer, dns_in_iteration,
                   dns_records_to_cleanup, items, total, count, i, batches, calls,
                   sleeps, progress, listed, revisited>>

\* a listing call raises: except Exception -> os._exit(os.EX_OSERR)
ListFail ==
    /\ \/ pc = "list_first"
       \/ pc = "while" /\ MorePages
    /\ request' = IF pc = "list_first" THEN FirstRequest ELSE ContinuationRequest
    /\ Exit("ListingFailure", EX_OSERR)
    /\ UNCHANGED ownerVars
    /\ UNCHANGED <<script, config, page_size, zone0, zone, answer, dns_in_iteration,
                   dns_records_to_cleanup, items, total, count, i, batches, calls,
                   sleeps, progress, listed, revisited>>

\* the while loop ends: the hand-over to delete_records / deleteRecords up
\* to the creation of range(0, total, batch_size)
StartDelete ==
    /\ pc = "while"
    /\ ~MorePages
    /\ IF script = "aws-cleanup" /\ Len(dns_records_to_cleanup) = 0
       THEN /\ Exit("nothing", 0)
            /\ UNCHANGED <<total, count, i>>
       ELSE /\ total' = Len(dns_records_to_cleanup)
            /\ count' = 0
            /\ i' = 0
            /\ IF config.batch_size = 0
               THEN Exit("ValueError", EX_OSERR)
               ELSE pc' = "for" /\ UNCHANGED <<outcome, exit_status>>
    /\ UNCHANGED ownerVars
    /\ UNCHANGED <<script, config, page_size, zone0, zone, answer, request,
                   dns_in_iteration,
                   dns_records_to_cleanup, items, batches, calls, sleeps, progress,
                   listed, revisited>>

\* range(0, total, batch_size) has another index
InRange == config.batch_size > 0 /\ i < total

\* a slice that ends one record too far
BatchOneTooFar ==
    SubSeq(dns_records_to_cleanup, i + 1, Min(i + config.batch_size + 1, total))

\* batch = records[i:min(i + batch_size, total)]
Batch == SubSeq(dns_records_to_cleanup, i + 1, Min(i + config.batch_size, total))

\* the counter without the clamp at total
NextCountUnclamped == count + config.batch_size

\* count += batch_size; if count >= total: count = total
NextCount == IF count + config.batch_size >= total THEN total
             ELSE count + config.batch_size

\* the change-set built from the Record's fields instead of el.record
ChangesRebuilt(batch) ==
    [k \in 1..Len(batch) |->
        [Action |-> "DELETE",
         ResourceRecordSet |->
            [Name            |-> batch[k].name,
             Type            |-> batch[k].type,
             ResourceRecords |-> << [Value |-> batch[k].resource_record] >>,
             SetIdentifier   |-> batch[k].record.SetIdentifier]]]

\* changes.append({'Action': 'DELETE', 'ResourceRecordSet': el.record})
Changes(batch) ==
    [k \in 1..Len(batch) |-> [Action |-> "DELETE", ResourceRecordSet |-> batch[k].record]]

\* one iteration of the for loop in a dry run
Simulate ==
    /\ pc = "for"
    /\ InRange
    /\ ~config.run
    /\ batches' = Append(batches, Batch)
    /\ count' = NextCount
    /\ progress' = Append(progress, NextCount)
    /\ i' = i + config.batch_size
    /\ UNCHANGED ownerVars
    /\ UNCHANGED <<script, config, page_size, zone0, zone, pc, answer, request,
                   dns_in_iteration,
                   dns_records_to_cleanup, items, total, calls, sleeps,
                   listed, revisited, outcome, exit_status>>

\* the mutation call issued without looking at config.run
DeleteWithoutRunFlag ==
    /\ pc = "for"
    /\ InRange
    /\ batches' = Append(batches, Batch)
    /\ Applicable(zone, Changes(Batch))
    /\ calls' = Append(calls, [Changes |-> Changes(Batch), ok |-> TRUE, sleeps |-> sleeps])
    /\ zone' = ApplyChanges(zone, Changes(Batch))
    /\ sleeps' = sleeps + 1
    /\ count' = NextCount
    /\ progress' = Append(progress, NextCount)
    /\ i' = i + config.batch_size
    /\ UNCHANGED ownerVars
    /\ UNCHANGED <<script, config, page_size, zone0, pc, answer, request,
                   dns_in_iteration,
                   dns_records_to_cleanup, items, total, listed, revisited,
                   outcome, exit_status>>

\* the mutation call that is not followed by time.sleep(SLEEP)
DeleteWithoutSleep ==
    /\ pc = "for"
    /\ InRange
    /\ config.run
    /\ batches' = Append(batches, Batch)
    /\ Applicable(zone, Changes(Batch))
    /\ calls' = Append(calls, [Changes |-> Changes(Batch), ok |-> TRUE, sleeps |-> sleeps])
    /\ zone' = ApplyChanges(zone, Changes(Batch))
    /\ count' = NextCount
    /\ progress' = Append(progress, NextCount)
    /\ i' = i + config.batch_size
    /\ UNCHANGED ownerVars
    /\ UNCHANGED <<script, config, page_size, zone0, pc, answer, request,
                   dns_in_iteration,
                   dns_records_to_cleanup, items, total, sleeps, listed, revisited,
                   outcome, exit_status>>

\* one iteration in a real run: the call succeeds, sleep, progress line
Delete ==
    /\ pc = "for"
    /\ InRange
    /\ config.run
    /\ batches' = Append(batches, Batch)
    /\ Applicable(zone, Changes(Batch))
    /\ calls' = Append(calls, [Changes |-> Changes(Batch), ok |-> TRUE, sleeps |-> sleeps])
    /\ zone' = ApplyChanges(zone, Changes(Batch))
    /\ sleeps' = sleeps + 1
    /\ count' = NextCount
    /\ progress' = Append(progress, NextCount)
    /\ i' = i + config.batch_size
    /\ UNCHANGED ownerVars
    /\ UNCHANGED <<script, config, page_size, zone0, pc, answer, request,
                   dns_in_iteration,
                   dns_records_to_cleanup, items, total, listed, revisited,
                   outcome, exit_status>>

\* a mutation error that is reported while the loop goes on
DeleteFailContinues ==
    /\ pc = "for"
    /\ InRange
    /\ config.run
    /\ batches' = Append(batches, Batch)
    /\ calls' = Append(calls, [Changes |-> Changes(Batch), ok |-> FALSE, sleeps |-> sleeps])
    /\ count' = NextCount
    /\ i' = i + config.batch_size
    /\ outcome' = "MutationFailure"
    /\ exit_status' = EX_OSERR
    /\ UNCHANGED ownerVars
    /\ UNCHANGED <<script, config, page_size, zone0, zone, pc, answer, request,
                   dns_in_iteration,
                   dns_records_to_cleanup, items, total, sleeps, progress,
                   listed, revisited>>

\* one iteration in a real run: the call raises -> os._exit(os.EX_OSERR)
DeleteFail ==
    /\ pc = "for"
    /\ InRange
    /\ config.run
    /\ batches' = Append(batches, Batch)
    /\ calls' = Append(calls, [Changes |-> Changes(Batch), ok |-> FALSE, sleeps |-> sleeps])
    /\ count' = NextCount
    /\ Exit("MutationFailure", EX_OSERR)
    /\ UNCHANGED ownerVars
    /\ UNCHANGED <<script, config, page_size, zone0, zone, answer, request,
                   dns_in_iteration,
                   dns_records_to_cleanup, items, total, i, sleeps, progress,
                   listed, revisited>>

\* the for loop is over: the script returns and ends
Finish ==
    /\ pc = "for"
    /\ ~InRange
    /\ Exit("completed", 0)
    /\ UNCHANGED ownerVars
    /\ UNCHANGED <<script, config, page_size, zone0, zone, answer, request,
                   dns_in_iteration,
                   dns_records_to_cleanup, items, total, count, i, batches, calls,
                   sleeps, progress, listed, revisited>>

Next ==
    \/ Confirm
    \/ ListFirst
    \/ ListNext
    \/ ListFail
    \/ StartDelete
    \/ Simulate
    \/ Delete
    \/ DeleteFail
    \/ Finish

Spec == Init /\ [][Next]_vars

SpecExample == InitExample /\ [][Next]_vars

\* the single thread of control never stops while it has a step to take:
\* every provider call returns, with a result or with an error
SpecFair == Spec /\ WF_vars(Next)

----------------------------------------------------------------------------
(* scripts/update_route53_k8s_txt_owner.py                                  *)
(* Domains are strings without the final dot ("a"), the names of the zone   *)
(* are fully qualified ("a.").  A zone of this script has at most one       *)
(* record set of a name and a type.                                         *)

\* txt_owner_id = ''
txt_owner_id == <<>>

\* the names of the zone, in the provider's listing order
R53Names == << <<"a", ".">>, <<"b", ".">> >>

NameRank(name) == CHOOSE k \in 1..Len(R53Names) : R53Names[k] = name

\* the fully qualified name of a domain
Fqdn(domain) ==
    IF domain # <<>> /\ domain[Len(domain)] = "." THEN domain
    ELSE domain \o <<".">>

\* every record set a zone may hold, in listing order
OwnerRecordSets ==
    << [Name |-> R53Names[1], Type |-> "A"], [Name |-> R53Names[1], Type |-> "TXT"],
       [Name |-> R53Names[2], Type |-> "A"], [Name |-> R53Names[2], Type |-> "TXT"] >>

OwnerZones ==
    { SelectSeq(OwnerRecordSets, LAMBDA el : el \in S) :
        S \in SUBSET { OwnerRecordSets[k] : k \in 1..Len(OwnerRecordSets) } }

\* i.metadata.annotations of a service: None or without 'domainName', or
\* with the domainName "a" or "a,b"
ServiceAnnotations ==
    { [has |-> FALSE, domainName |-> <<>>] }
    \cup [has : {TRUE}, domainName : { <<"a">>, <<"a", ",", "b">> }]

\* r.host of an ingress rule
RuleHosts == { <<"a">>, <<"b">> }

\* the clusters: at most MaxServices services and MaxRules ingress rules
SeqsUpTo(S, n) == UNION { [1..m -> S] : m \in 0..n }

\* str.split(','): the pieces between the commas
RECURSIVE split(_)
split(s) ==
    IF \A k \in 1..Len(s) : s[k] # "," THEN << s >>
    ELSE LET k == CHOOSE m \in 1..Len(s) :
                      s[m] = "," /\ \A n \in 1..(m - 1) : s[n] # ","
         IN  << SubSeq(s, 1, k - 1) >> \o split(SubSeq(s, k + 1, Len(s)))

SeqHas(seq, x) == \E k \in 1..Len(seq) : seq[k] = x

\* for i in svcs.items: k8s_domains.extend(annotations['domainName'].split(','))
RECURSIVE ExtendWithServices(_, _)
ExtendWithServices(services, domains) ==
    IF services = <<>> THEN domains
    ELSE ExtendWithServices(Tail(services),
            IF Head(services).has THEN domains \o split(Head(services).domainName)
            ELSE domains)

\* for r in i.spec.rules: if r.host not in k8s_domains: k8s_domains.append(r.host)
RECURSIVE AppendHosts(_, _)
AppendHosts(hosts, domains) ==
    IF hosts = <<>> THEN domains
    ELSE AppendHosts(Tail(hosts),
            IF SeqHas(domains, Head(hosts)) THEN domains
            ELSE Append(domains, Head(hosts)))

\* r53client.list_resource_record_sets(HostedZoneId, StartRecordName,
\* StartRecordType): the page that begins with the first record set at or
\* after the start name and type; '' stands for a start that is not given
r53client_list_resource_record_sets(z, StartRecordName, StartRecordType, MaxItems) ==
    LET from == SelectSeq(z, LAMBDA el :
                    \/ StartRecordName = <<>>
                    \/ NameRank(el.Name) > NameRank(StartRecordName)
                    \/ /\ el.Name = StartRecordName
                       /\ \/ StartRecordType = ""
                          \/ TypeRank(el.Type) >= TypeRank(StartRecordType))
        truncated == Len(from) > MaxItems
    IN  [ResourceRecordSets |-> SubSeq(from, 1, Min(MaxItems, Len(from))),
         IsTruncated        |-> truncated,
         NextRecordName     |-> IF truncated THEN from[MaxItems + 1].Name ELSE <<>>,
         NextRecordType     |-> IF truncated THEN from[MaxItems + 1].Type ELSE ""]

\* r['Name'][:-1] of the record sets of one type in a page
RECURSIVE NamesOfType(_, _)
NamesOfType(elements, type) ==
    IF elements = <<>> THEN <<>>
    ELSE LET r == Head(elements)
         IN  (IF r.Type = type THEN << SubSeq(r.Name, 1, Len(r.Name) - 1) >> ELSE <<>>)
             \o NamesOfType(Tail(elements), type)

\* r53_k8s_domains = [r for r in k8s_domains if r in existing_r53_domains]
\* missing_k8s_txt = [r for r in r53_k8s_domains if r not in existing_r53_txt_domains]
missing_k8s_txt ==
    LET r53_k8s_domains ==
            SelectSeq(k8s_domains, LAMBDA r : SeqHas(existing_r53_domains, r))
    IN  SelectSeq(r53_k8s_domains, LAMBDA r : ~SeqHas(existing_r53_txt_domains, r))

\* change_batch.append({'Action': 'CREATE', 'ResourceRecordSet': {...}})
ChangeBatch(missing) ==
    [k \in 1..Len(missing) |->
        [Action |-> "CREATE",
         ResourceRecordSet |->
            [Name |-> missing[k],
             Type |-> "TXT",
             TTL  |-> 300,
             ResourceRecords |->
                << [Value |-> <<"\\heritage=external-dns,owner=\"", txt_owner_id, "\"">>] >>]]]

\* change_resource_record_sets accepts a batch of CREATEs as a whole: it has
\* at least one change, no two changes for the same name and type, and no
\* change for a record set that exists
Creatable(z, changes) ==
    /\ changes # <<>>
    /\ \A k, m \in 1..Len(changes) :
          (/\ Fqdn(changes[k].ResourceRecordSet.Name) = Fqdn(changes[m].ResourceRecordSet.Name)
           /\ changes[k].ResourceRecordSet.Type = changes[m].ResourceRecordSet.Type)
          => k = m
    /\ \A k \in 1..Len(changes) : \A m \in 1..Len(z) :
          ~ /\ z[m].Name = Fqdn(changes[k].ResourceRecordSet.Name)
            /\ z[m].Type = changes[k].ResourceRecordSet.Type

\* the zone with the record sets of the changes created
Create(z, changes) ==
    SelectSeq(OwnerRecordSets, LAMBDA el :
        \/ SeqHas(z, el)
        \/ \E k \in 1..Len(changes) :
              /\ el.Name = Fqdn(changes[k].ResourceRecordSet.Name)
              /\ el.Type = changes[k].ResourceRecordSet.Type)

\* str.lower() of the characters an answer is made of
LowerChar(c) ==
    CASE c = "Y" -> "y" [] c = "E" -> "e" [] c = "S" -> "s"
      [] c = "O" -> "o" [] c = "K" -> "k" [] c = "N" -> "n"
      [] OTHER -> c

lower(s) == [k \in 1..Len(s) |-> LowerChar(s[k])]

\* ['y', 'yes', 'yup', 'ok', 'sure', 'why not', 'why not?']
AcceptedResponses ==
    { <<"y">>, <<"y", "e", "s">>, <<"y", "u", "p">>, <<"o", "k">>,
      <<"s", "u", "r", "e">>,
      <<"w", "h", "y", " ", "n", "o", "t">>,
      <<"w", "h", "y", " ", "n", "o", "t", "?">> }

\* what the operator may type
TypedResponses ==
    { <<>>, <<"y">>, <<"Y", "e", "s">>, <<"n", "o">>, <<"y", "e", "s", " ">> }

\* the state of the clean-up scripts' variables, which this script leaves alone
CleanupIdle ==
    /\ config = [contain |-> <<>>, total_items |-> 0, batch_size |-> 0, run |-> FALSE]
    /\ answer = "none"
    /\ request = NoRequest
    /\ dns_in_iteration = NoResponse
    /\ dns_records_to_cleanup = <<>>
    /\ items = 0
    /\ total = 0
    /\ count = 0
    /\ i = 0
    /\ batches = <<>>
    /\ sleeps = 0
    /\ progress = <<>>
    /\ listed = {}
    /\ revisited = FALSE

cleanupVars == <<script, config, page_size, zone0, answer, request, dns_in_iteration,
                 dns_records_to_cleanup, items, total, count, i, batches, sleeps,
                 progress, listed, revisited,
                 svcs, ings, external_dns_manages_services,
                 external_dns_manages_ingresses>>

\* the script starts: a cluster, a zone and a page size
InitOwner ==
    /\ script = "update-owner"
    /\ page_size \in 1..MaxPage
    /\ zone0 \in OwnerZones
    /\ zone = zone0
    /\ svcs \in SeqsUpTo(ServiceAnnotations, MaxServices)
    /\ ings \in SeqsUpTo(RuleHosts, MaxRules)
    /\ external_dns_manages_services \in BOOLEAN
    /\ external_dns_manages_ingresses \in BOOLEAN
    /\ pc = "k8s"
    /\ calls = <<>>
    /\ outcome = "running"
    /\ exit_status = NoExit
    /\ CleanupIdle
    /\ OwnerIdle

\* lines 46-62: the domains of the services, then the hosts of the ingresses
K8sDomains ==
    LET of_services == IF external_dns_manages_services
                       THEN ExtendWithServices(svcs, <<>>) ELSE <<>>
    IN  IF external_dns_manages_ingresses THEN AppendHosts(ings, of_services)
        ELSE of_services

ReadK8s ==
    /\ pc = "k8s"
    /\ k8s_domains' = K8sDomains
    /\ pc' = "while"
    /\ UNCHANGED <<zone, calls, outcome, exit_status, existing_r53_txt_domains,
                   existing_r53_domains, has_next, next_record_name,
                   next_record_type, change_batch, printed, response>>
    /\ UNCHANGED cleanupVars

\* one iteration of `while has_next`: the call (from the cursor, when there
\* is one), the for loop over the page, and the new cursor
ListPage ==
    /\ script = "update-owner"
    /\ pc = "while"
    /\ has_next
    /\ LET resource_records ==
               r53client_list_resource_record_sets(zone, next_record_name,
                                                   next_record_type, page_size)
       IN  /\ existing_r53_txt_domains' = existing_r53_txt_domains
                  \o NamesOfType(resource_records.ResourceRecordSets, "TXT")
           /\ existing_r53_domains' = existing_r53_domains
                  \o NamesOfType(resource_records.ResourceRecordSets, "A")
           /\ has_next' = resource_records.IsTruncated
           /\ next_record_name' = IF resource_records.IsTruncated
                                  THEN resource_records.NextRecordName
                                  ELSE next_record_name
           /\ next_record_type' = IF resource_records.IsTruncated
                                  THEN resource_records.NextRecordType
                                  ELSE next_record_type
    /\ UNCHANGED <<zone, pc, calls, outcome, exit_status, k8s_domains, change_batch,
                   printed, response>>
    /\ UNCHANGED cleanupVars

\* a listing call raises: the exception is not caught, the script dies
ListPageFail ==
    /\ script = "update-owner"
    /\ pc = "while"
    /\ has_next
    /\ Exit("ListingFailure", 1)
    /\ UNCHANGED <<zone, calls>>
    /\ UNCHANGED <<k8s_domains, existing_r53_txt_domains, existing_r53_domains,
                   has_next, next_record_name, next_record_type, change_batch,
                   printed, response>>
    /\ UNCHANGED cleanupVars

\* lines 92-115: the gaps, the change batch, and its print
MakeChangeBatch ==
    /\ script = "update-owner"
    /\ pc = "while"
    /\ ~has_next
    /\ change_batch' = ChangeBatch(missing_k8s_txt)
    /\ printed' = Append(printed, change_batch')
    /\ pc' = "input"
    /\ UNCHANGED <<zone, calls, outcome, exit_status, k8s_domains,
                   existing_r53_txt_domains, existing_r53_domains, has_next,
                   next_record_name, next_record_type, response>>
    /\ UNCHANGED cleanupVars

\* the prompt after which the update is made whatever was typed
GoodToGoAnyResponse ==
    /\ pc = "input"
    /\ \E typed \in TypedResponses : response' = typed
    /\ pc' = "update"
    /\ UNCHANGED <<zone, calls, outcome, exit_status, k8s_domains,
                   existing_r53_txt_domains, existing_r53_domains, has_next,
                   next_record_name, next_record_type, change_batch, printed>>
    /\ UNCHANGED cleanupVars

\* response = input("Good to go? "); if response.lower() in [...]: ... else: ...
GoodToGo ==
    /\ pc = "input"
    /\ \E typed \in TypedResponses :
          /\ response' = typed
          /\ IF lower(typed) \in AcceptedResponses
             THEN pc' = "update" /\ UNCHANGED <<outcome, exit_status>>
             ELSE Exit("declined", 0)
    /\ UNCHANGED <<zone, calls, k8s_domains,
                   existing_r53_txt_domains, existing_r53_domains, has_next,
                   next_record_name, next_record_type, change_batch, printed>>
    /\ UNCHANGED cleanupVars

\* r53client.change_resource_record_sets(...) is accepted
Update ==
    /\ pc = "update"
    /\ Creatable(zone, change_batch)
    /\ calls' = Append(calls, [Changes |-> change_batch, ok |-> TRUE, sleeps |-> 0])
    /\ zone' = Create(zone, change_batch)
    /\ Exit("updated", 0)
    /\ UNCHANGED ownerVars
    /\ UNCHANGED <<script, config, page_size, zone0, answer, request, dns_in_iteration,
                   dns_records_to_cleanup, items, total, count, i, batches, sleeps,
                   progress, listed, revisited>>

\* r53client.change_resource_record_sets(...) raises: the script dies
UpdateFail ==
    /\ pc = "update"
    /\ calls' = Append(calls, [Changes |-> change_batch, ok |-> FALSE, sleeps |-> 0])
    /\ Exit("MutationFailure", 1)
    /\ UNCHANGED ownerVars
    /\ UNCHANGED <<script, config, page_size, zone0, zone, answer, request,
                   dns_in_iteration,
                   dns_records_to_cleanup, items, total, count, i, batches, sleeps,
                   progress, listed, revisited>>

NextOwner ==
    \/ ReadK8s
    \/ ListPage
    \/ ListPageFail
    \/ MakeChangeBatch
    \/ GoodToGo
    \/ Update
    \/ UpdateFail

SpecOwner == InitOwner /\ [][NextOwner]_vars

----------------------------------------------------------------------------
(* Helpers of the properties *)

\* the listing phase is over and did not fail
ListingDone == pc = "for" \/ outcome \in {"nothing", "ValueError", "completed", "MutationFailure"}

\* the run called delete_records / deleteRecords
HandedOver == pc = "for" \/ outcome \in {"ValueError", "completed", "MutationFailure"}

RECURSIVE Flatten(_)
Flatten(seqs) == IF seqs = <<>> THEN <<>> ELSE Head(seqs) \o Flatten(Tail(seqs))

RECURSIVE SumLen(_)
SumLen(seqs) == IF seqs = <<>> THEN 0 ELSE Len(Head(seqs)) + SumLen(Tail(seqs))

CeilDiv(a, b) == (a + b - 1) \div b

Last(seq) == seq[Len(seq)]

\* s = p \o c \o q for some p and q
HasSubstring(s, c) ==
    \E a \in 0..Len(s) : \E b \in a..Len(s) : SubSeq(s, a + 1, b) = c

\* the values of a listed entry, the first n of them, one after the other
RECURSIVE ValuesUpTo(_, _)
ValuesUpTo(el, n) ==
    IF n = 0 THEN <<>>
    ELSE ValuesUpTo(el, n - 1) \o el.ResourceRecords[n].Value

ValueOf(el) == ValuesUpTo(el, Len(el.ResourceRecords))

CleanupIds ==
    { dns_records_to_cleanup[k].record.SetIdentifier : k \in 1..Len(dns_records_to_cleanup) }

----------------------------------------------------------------------------
(* C1: dry-run purity.  In a run with run == false no                      *)
(* change_resource_record_sets call is issued and the script never sleeps, *)
(* whatever the matches and the batch size, so the zone stays as it was    *)
(* when the run started.                                                   *)
DryRunPurity ==
    ~config.run => /\ calls = <<>>
                   /\ sleeps = 0
                   /\ zone = zone0

\* a dry run that went through two batches and completed
DryRunPurityWitness ==
    /\ ~config.run
    /\ outcome = "completed"
    /\ Len(batches) >= 2

(* C2: cap enforcement.  The match list handed to the Deleter has at most  *)
(* total_items records, for every cap, zone and page layout.               *)
CapEnforced ==
    HandedOver => Len(dns_records_to_cleanup) <= config.total_items

(* C3: cap of zero.  With total_items = 0 the Selector's result is empty,  *)
(* no mutation call is issued and the run ends in the nothing-to-do        *)
(* outcome.                                                                *)
CapOfZero ==
    (script = "aws-cleanup" /\ config.total_items = 0)
        => /\ dns_records_to_cleanup = <<>>
           /\ calls = <<>>
           /\ ListingDone => outcome = "nothing"

(* C4: batch partition.  With batch_size b > 0 no batch has more than b    *)
(* records or fewer than one, every batch but the last begun has exactly   *)
(* b, the batches concatenated in order are a prefix of the match list,    *)
(* and a run that completes has gone through exactly ceil(L/b) batches     *)
(* whose concatenation is the whole match list.                            *)
BatchPartition ==
    config.batch_size > 0 =>
        /\ \A k \in 1..Len(batches) :
              /\ Len(batches[k]) >= 1
              /\ Len(batches[k]) <= config.batch_size
              /\ k < Len(batches) => Len(batches[k]) = config.batch_size
        /\ SumLen(batches) <= Len(dns_records_to_cleanup)
        /\ Flatten(batches) = SubSeq(dns_records_to_cleanup, 1, SumLen(batches))
        /\ outcome = "completed" =>
              /\ Len(batches) = CeilDiv(Len(dns_records_to_cleanup), config.batch_size)
              /\ Flatten(batches) = dns_records_to_cleanup

\* three matches in batches of two: a full batch, then a short last one
BatchPartitionWitness ==
    /\ outcome = "completed"
    /\ config.batch_size = 2
    /\ Len(dns_records_to_cleanup) = 3
    /\ Len(batches) = 2
    /\ Len(batches[2]) = 1

(* C5: fail-fast on mutation error.  When the mutation call of batch i     *)
(* fails, the run is over with status EX_OSERR: the failed call is the     *)
(* last call issued (no later batch, no retry), every earlier call         *)
(* succeeded, and the progress lines printed are those of batches 1..i-1,  *)
(* the last of them reporting exactly the records of those batches.        *)
FailFast ==
    outcome = "MutationFailure" =>
        /\ pc = "exited"
        /\ exit_status = EX_OSERR
        /\ ~ENABLED Next
        /\ calls # <<>>
        /\ ~Last(calls).ok
        /\ \A k \in 1..(Len(calls) - 1) : calls[k].ok
        /\ Len(batches) = Len(calls)
        /\ Len(progress) = Len(calls) - 1
        /\ (IF progress = <<>> THEN 0 ELSE Last(progress))
              = SumLen(SubSeq(batches, 1, Len(calls) - 1))

\* the second of three batches fails
FailFastWitness ==
    /\ outcome = "MutationFailure"
    /\ Len(calls) = 2
    /\ Len(dns_records_to_cleanup) = 3
    /\ config.batch_size = 1

(* C6: a listing failure aborts before any deletion.  After a failed       *)
(* listing call the run is over with status EX_OSERR, no listing is        *)
(* retried and no mutation call was or will be issued, also when matches   *)
(* were accumulated and run == true; no listing call follows a mutation    *)
(* call.                                                                   *)
ListingFailureAborts ==
    /\ outcome = "ListingFailure" =>
          /\ pc = "exited"
          /\ exit_status = EX_OSERR
          /\ calls = <<>>
          /\ zone = zone0
          /\ ~ENABLED Next
    /\ calls # <<>> => ~ENABLED (ListFirst \/ ListNext \/ ListFail)

\* a continuation page fails in a real run that had matches already
ListingFailureAbortsWitness ==
    /\ outcome = "ListingFailure"
    /\ config.run
    /\ dns_records_to_cleanup # <<>>
    /\ config.batch_size > 0

(* C7: pagination completeness.  While the cap is not reached no record    *)
(* of the zone is returned twice, and when the listing ends below the cap  *)
(* every record of the zone was returned and the match list is the         *)
(* selected records of the zone in provider order, none twice.             *)
PaginationComplete ==
    items < config.total_items =>
        /\ ~revisited
        /\ ListingDone =>
              /\ listed = Ids(zone0)
              /\ [k \in 1..Len(dns_records_to_cleanup) |->
                     dns_records_to_cleanup[k].record]
                    = SelectSeq(zone0, LAMBDA el : Selected(el))

(* C8: predicate correctness in aws-cleanup.  Every record of the match    *)
(* list is a TXT entry whose concatenated value contains config.contain;   *)
(* below the cap every listed TXT entry whose concatenated value contains  *)
(* it is in the match list, so with the empty match string every listed    *)
(* TXT entry is; an entry of another type is never in it.                  *)
PredicateCorrect ==
    script = "aws-cleanup" =>
        /\ \A k \in 1..Len(dns_records_to_cleanup) :
              LET r == dns_records_to_cleanup[k] IN
              /\ r.record.Type = "TXT"
              /\ HasSubstring(ValueOf(r.record), config.contain)
              /\ r.resource_record = ValueOf(r.record)
        /\ items < config.total_items =>
              \A k \in 1..Len(zone0) :
                 (/\ zone0[k].SetIdentifier \in listed
                  /\ zone0[k].Type = "TXT"
                  /\ HasSubstring(ValueOf(zone0[k]), config.contain))
                    => zone0[k].SetIdentifier \in CleanupIds
        /\ (items < config.total_items /\ config.contain = <<>>) =>
              \A k \in 1..Len(zone0) :
                 (zone0[k].SetIdentifier \in listed /\ zone0[k].Type = "TXT")
                    => zone0[k].SetIdentifier \in CleanupIds

\* the match string "ab": a TXT entry "a","b" was selected, a TXT entry
\* "b","a" and an A entry "a","b" were listed and not selected
PredicateCorrectWitness ==
    /\ script = "aws-cleanup"
    /\ config.contain = <<"a", "b">>
    /\ ListingDone
    /\ items < config.total_items
    /\ dns_records_to_cleanup # <<>>
    /\ \E k \in 1..Len(zone0) :
          /\ zone0[k].SetIdentifier \in listed \ CleanupIds
          /\ zone0[k].Type = "TXT"
    /\ \E k \in 1..Len(zone0) :
          /\ zone0[k].SetIdentifier \in listed
          /\ zone0[k].Type = "A"

(* C9: in cleanup-legacy-txt-records.py --record-contain restricts the     *)
(* deletion set: a record is in the match list only if its concatenated    *)
(* value contains the --record-contain string.                             *)
RecordContainRestricts ==
    script = "cleanup" =>
        \A k \in 1..Len(dns_records_to_cleanup) :
            HasSubstring(dns_records_to_cleanup[k].resource_record, config.contain)

(* C10: invalid batch size.  With batch_size <= 0 and a non-empty match    *)
(* list the run issues no mutation call and does not complete normally:    *)
(* it ends in an error outcome with a non-zero status.  (Stated for the    *)
(* runs with a positive cap, where the match list is within the cap.)      *)
InvalidBatchSize ==
    (/\ config.batch_size <= 0
     /\ config.total_items > 0
     /\ dns_records_to_cleanup # <<>>) =>
        /\ calls = <<>>
        /\ (pc = "exited" /\ HandedOver) =>
              (outcome = "ValueError" /\ exit_status # 0)

----------------------------------------------------------------------------
\* a listing call or a mutation call of the run failed
ProviderCallFailed ==
    \/ outcome = "ListingFailure"
    \/ calls # <<>> /\ ~Last(calls).ok

\* a provider call (listing or mutation) was issued
ProviderCalled == request.kind # "none" \/ calls # <<>>

\* delete_records / deleteRecords is entered with a batch size of 0
ZeroStepRange ==
    /\ config.batch_size = 0
    /\ answer # "no"
    /\ ~ProviderCallFailed
    /\ script = "cleanup" \/ dns_records_to_cleanup # <<>>

ConfirmationGate ==
    ProviderCalled => answer = "yes"

(* C12, amended: in aws-cleanup no provider call is made before the        *)
(* operator answered 'yes', and after any other answer the run is over     *)
(* with status 0 and without a provider call; cleanup has no confirmation  *)
(* step and never asks.                                                    *)
ConfirmationGateAws ==
    /\ script = "aws-cleanup" =>
          /\ ProviderCalled => answer = "yes"
          /\ pc # "confirm" => answer # "none"
          /\ answer = "no" =>
                /\ ~ProviderCalled
                /\ pc = "exited"
                /\ exit_status = 0
                /\ zone = zone0
                /\ ~ENABLED Next
    /\ script = "cleanup" => answer = "none"

\* the operator declined the run on a zone that has records
ConfirmationGateAwsWitness ==
    /\ script = "aws-cleanup"
    /\ answer = "no"
    /\ pc = "exited"
    /\ zone0 # <<>>
    /\ config.run

(* C13, as stated: on a zone of 5 TXT records of which 3 match, with       *)
(* batch size 2, run = true and a cap of at least 3, aws-cleanup issues    *)
(* exactly 2 mutation calls, of 2 and then 1 changes, sleeps exactly once  *)
(* and reports 3/3 last.                                                   *)
WorkedExampleOneSleep ==
    (/\ script = "aws-cleanup"
     /\ config.run
     /\ config.batch_size = 2
     /\ config.total_items >= 3
     /\ outcome = "completed") =>
        /\ Len(calls) = 2
        /\ Len(calls[1].Changes) = 2
        /\ Len(calls[2].Changes) = 1
        /\ sleeps = 1
        /\ total = 3
        /\ Last(progress) = 3

(* C13, amended: in that run aws-cleanup issues exactly 2 mutation calls,  *)
(* of 2 and then 1 changes, sleeps exactly twice, once after each call     *)
(* (so once between the two calls and once after the last), and reports    *)
(* 3/3 last.                                                               *)
WorkedExample ==
    (/\ script = "aws-cleanup"
     /\ config.run
     /\ config.batch_size = 2
     /\ config.total_items >= 3
     /\ outcome = "completed") =>
        /\ Len(calls) = 2
        /\ calls[1].ok /\ calls[2].ok
        /\ Len(calls[1].Changes) = 2
        /\ Len(calls[2].Changes) = 1
        /\ calls[1].sleeps = 0
        /\ calls[2].sleeps = 1
        /\ sleeps = 2
        /\ total = 3
        /\ progress = <<2, 3>>
        /\ Len(zone) = 2

\* the run of the example has completed
WorkedExampleWitness ==
    /\ script = "aws-cleanup"
    /\ config.run
    /\ config.batch_size = 2
    /\ config.total_items >= 3
    /\ outcome = "completed"
    /\ Len(zone0) = 5
    /\ page_size = 5

(* C14: continuation cursor.  Every listing request after the first starts *)
(* from the full cursor of the response before it, the record name and the *)
(* record type, so the page it gets begins with the record set the cursor  *)
(* names.                                                                  *)
ContinuationCursor ==
    request.kind = "next" =>
        /\ request.StartRecordName = request.cursor[1]
        /\ request.StartRecordType = request.cursor[2]
        /\ (pc = "while" /\ dns_in_iteration.ResourceRecordSets # <<>>) =>
              /\ dns_in_iteration.ResourceRecordSets[1].Name = request.cursor[1]
              /\ dns_in_iteration.ResourceRecordSets[1].Type = request.cursor[2]

(* C15: run termination.  When every provider call returns, every run     *)
(* eventually ends (DONE or FAILED): the listing loop cannot request pages *)
(* forever.                                                                *)
Termination == <>(pc = "exited")

(* C16: configuration errors precede all network calls.  With an invalid   *)
(* batch size (batch_size <= 0) the run halts before any provider call is  *)
(* made, the first listing call included.                                  *)
ConfigErrorBeforeCalls ==
    config.batch_size <= 0 => ~ProviderCalled

----------------------------------------------------------------------------
\* the zone z without the record sets of the Records recs
Without(z, recs) ==
    SelectSeq(z, LAMBDA el : \A k \in 1..Len(recs) : recs[k].record # el)

\* the number of calls among the first n that succeeded
RECURSIVE Succeeded(_)
Succeeded(n) == IF n = 0 THEN 0
                ELSE Succeeded(n - 1) + (IF calls[n].ok THEN 1 ELSE 0)

(* C17: change-set contents.  Every change of every change-set submitted   *)
(* has action DELETE and carries, unmodified, a record entry of type TXT   *)
(* that a listing call of the run returned.                                *)
ChangeSetContents ==
    \A k \in 1..Len(calls) : \A m \in 1..Len(calls[k].Changes) :
        LET change == calls[k].Changes[m] IN
        /\ change.Action = "DELETE"
        /\ change.ResourceRecordSet.Type = "TXT"
        /\ \E j \in 1..Len(zone0) :
              /\ zone0[j] = change.ResourceRecordSet
              /\ zone0[j].SetIdentifier \in listed

\* a change-set of two changes was submitted and accepted
ChangeSetContentsWitness ==
    /\ calls # <<>>
    /\ calls[1].ok
    /\ Len(calls[1].Changes) = 2
    /\ \E j \in 1..Len(zone0) : zone0[j].Type = "A"

\* after a failed mutation call the zone is the initial zone without the
\* records of the batches before the failed one
AppliedChunksOnly ==
    outcome = "MutationFailure" =>
        zone = Without(zone0, Flatten(SubSeq(batches, 1, Len(batches) - 1)))

(* C18: partial-failure boundary.  When the mutation call of batch i       *)
(* fails, the zone is the initial zone without the records of batches      *)
(* 1..i-1, and no record of batches i..n has been removed: every record of *)
(* the match list from the failed batch on is still in the zone.           *)
PartialFailureBoundary ==
    /\ AppliedChunksOnly
    /\ outcome = "MutationFailure" =>
          \A k \in ((Len(batches) - 1) * config.batch_size + 1)..Len(dns_records_to_cleanup) :
              \E j \in 1..Len(zone) : zone[j] = dns_records_to_cleanup[k].record

(* C19: rate-limit pause and strict sequencing.  Every successful mutation *)
(* call is followed by one pause before the next call, so exactly k-1      *)
(* pauses precede call k, and call k+1 is issued only after call k has     *)
(* returned successfully.                                                  *)
PauseAndSequencing ==
    /\ \A k \in 1..Len(calls) :
          /\ calls[k].sleeps = k - 1
          /\ k < Len(calls) => calls[k].ok
    /\ sleeps = Succeeded(Len(calls))
    /\ Len(calls) <= Len(batches)

\* two calls were issued in a real run
PauseAndSequencingWitness ==
    /\ config.run
    /\ Len(calls) = 2
    /\ calls[2].ok
    /\ sleeps = 2
    /\ pc = "for"

(* C20: progress accounting.  With batch_size b > 0 the progress value     *)
(* printed after batch j is min(j*b, L), the number of records of batches  *)
(* 1..j; the values never decrease, never exceed L, and the last one of a  *)
(* run that completes is L.                                                *)
ProgressAccounting ==
    config.batch_size > 0 =>
        /\ \A j \in 1..Len(progress) :
              /\ progress[j] = Min(j * config.batch_size, Len(dns_records_to_cleanup))
              /\ progress[j] = SumLen(SubSeq(batches, 1, j))
              /\ progress[j] <= Len(dns_records_to_cleanup)
              /\ j > 1 => progress[j - 1] <= progress[j]
        /\ Len(progress) <= Len(batches)
        /\ (outcome = "completed" /\ dns_records_to_cleanup # <<>>) =>
              /\ Len(progress) = Len(batches)
              /\ Last(progress) = Len(dns_records_to_cleanup)

\* three records in batches of two: 2/3, then 3/3
ProgressAccountingWitness ==
    /\ outcome = "completed"
    /\ config.batch_size = 2
    /\ progress = <<2, 3>>

----------------------------------------------------------------------------
\* the state of the run's state machine that a position of the script is in
Phase(at, status) ==
    CASE at = "confirm"                 -> "CONFIRMING"
      [] at \in {"list_first", "while"} -> "LISTING"
      [] at = "for"                     -> "BATCHING"
      [] at = "exited" /\ status = 0    -> "DONE"
      [] OTHER                          -> "FAILED"

\* a step that makes a listing call which raises
ListingErrorStep ==
    /\ Phase(pc, exit_status) = "LISTING"
    /\ request' # request
    /\ dns_in_iteration' = dns_in_iteration

\* a step of a real run that makes a mutation call which raises
MutationErrorStep ==
    /\ Phase(pc, exit_status) = "BATCHING"
    /\ config.run
    /\ Len(calls') = Len(calls) + 1
    /\ ~calls'[Len(calls')].ok

\* the states follow one another in the order of the state machine, every
\* batch is either simulated (dry run, no call) or deleted (real run, one
\* call), and nothing is called once the run is over
RunOrder ==
    /\ Phase(pc, exit_status) = "LISTING"
          => Phase(pc', exit_status') \in {"LISTING", "BATCHING", "DONE", "FAILED"}
    /\ Phase(pc, exit_status) = "BATCHING"
          => /\ Phase(pc', exit_status') \in {"BATCHING", "DONE", "FAILED"}
             /\ request' = request
             /\ Len(calls') = Len(calls) + (IF config.run /\ batches' # batches THEN 1 ELSE 0)
    /\ Phase(pc, exit_status) \in {"DONE", "FAILED"}
          => request' = request /\ calls' = calls

(* C21: run state machine.  Every run goes LISTING -> (nothing to do |      *)
(* BATCHING) -> per batch SIMULATING or DELETING -> DONE | FAILED; FAILED   *)
(* is entered only by a listing call that fails or by a mutation call of a  *)
(* real run that fails, and after DONE or FAILED no provider call is made.  *)
RunStateMachine ==
    [][ /\ RunOrder
        /\ Phase(pc', exit_status') = "FAILED" /\ Phase(pc, exit_status) # "FAILED"
              => ListingErrorStep \/ MutationErrorStep ]_vars

\* the state machine with one more way into FAILED: range(0, total, 0)
\* raises ValueError when the listing is over
RunStateMachineWithValueError ==
    [][ /\ RunOrder
        /\ Phase(pc', exit_status') = "FAILED" /\ Phase(pc, exit_status) # "FAILED"
              => \/ ListingErrorStep
                 \/ MutationErrorStep
                 \/ pc = "while" /\ ~MorePages /\ config.batch_size = 0 ]_vars

----------------------------------------------------------------------------
\* the domains Kubernetes manages: the domainName annotations of the services
\* and the hosts of the ingress rules, of the kinds external-dns looks at
ManagedDomains ==
    (IF external_dns_manages_services
     THEN UNION { { split(svcs[k].domainName)[m] :
                      m \in 1..Len(split(svcs[k].domainName)) } :
                  k \in { n \in 1..Len(svcs) : svcs[n].has } }
     ELSE {})
    \cup
    (IF external_dns_manages_ingresses
     THEN { ings[k] : k \in 1..Len(ings) }
     ELSE {})

\* the zone has a record set of this type for the domain
HasRecordSet(z, domain, type) ==
    \E k \in 1..Len(z) : z[k].Name = Fqdn(domain) /\ z[k].Type = type

\* the managed domains with an A record and without a TXT record
Gaps ==
    { d \in ManagedDomains :
        HasRecordSet(zone0, d, "A") /\ ~HasRecordSet(zone0, d, "TXT") }

\* the changes of the batch for one domain
ChangesFor(domain) ==
    { k \in 1..Len(change_batch) : change_batch[k].ResourceRecordSet.Name = domain }

\* the change batch creates a TXT record for every gap and for nothing else
GapsCovered ==
    printed # <<>> =>
        /\ \A d \in Gaps : ChangesFor(d) # {}
        /\ \A k \in 1..Len(change_batch) :
              /\ change_batch[k].Action = "CREATE"
              /\ change_batch[k].ResourceRecordSet.Type = "TXT"
              /\ change_batch[k].ResourceRecordSet.Name \in Gaps

(* C22: owner-record gap computation.  When the whole zone has been listed *)
(* and the change batch is shown, the batch holds exactly one CREATE of a  *)
(* TXT record for each managed domain that has an A record and no TXT      *)
(* record in the zone, no change for any other domain, and no second       *)
(* change for the same domain.                                             *)
GapComputation ==
    /\ GapsCovered
    /\ printed # <<>> => \A d \in Gaps : Cardinality(ChangesFor(d)) = 1

(* C23: owner-record update gate.  The mutation call is issued at most     *)
(* once, with the change batch that was shown to the operator, and only    *)
(* when the lower-cased response is one of the accepted answers; for any   *)
(* other response no call is made and the zone is left unchanged.          *)
UpdateGate ==
    script = "update-owner" =>
        /\ Len(calls) <= 1
        /\ calls # <<>> =>
              /\ printed = << calls[1].Changes >>
              /\ lower(response) \in AcceptedResponses
        /\ outcome = "declined" =>
              /\ lower(response) \notin AcceptedResponses
              /\ calls = <<>>
        /\ (pc \in {"update", "exited"} /\ outcome # "ListingFailure"
               /\ lower(response) \notin AcceptedResponses)
              => outcome = "declined"
        /\ calls = <<>> => zone = zone0
        /\ zone # zone0 => calls[1].ok

\* "Yes" was typed, and the TXT records of two domains were created
UpdateGateWitness ==
    /\ outcome = "updated"
    /\ response = <<"Y", "e", "s">>
    /\ Len(change_batch) = 2
    /\ Len(zone) = Len(zone0) + 2

\* "yes " was typed: nothing was called although there was a gap
UpdateGateDeclinedWitness ==
    /\ outcome = "declined"
    /\ response = <<"y", "e", "s", " ">>
    /\ change_batch # <<>>
    /\ calls = <<>>

====
